---- MODULE Spec2Model ----
(***************************************************************************)
(* State-machine model of the two glossary generators of the repository:   *)
(*   create_glossary.py   (sheet 'GlossaryTerms' -> glossary_mce.json)      *)
(*   create_glossary2.py  (data dictionary       -> generated_mce.json)     *)
(* Text is a sequence of pieces: a user-entered name is a sequence of      *)
(* one-character strings, a literal of the source is one piece.            *)
(***************************************************************************)
EXTENDS Integers, Sequences, FiniteSets, TLC

VARIABLES script, excel, pc, i, df, all_term_names, all_mces,
          created_term_urns, dataset_docs, raised, outfile, writes,
          stdout, exit_code,
          u_prefix, u_name, u_urn, u_again

vars == <<script, excel, pc, i, df, all_term_names, all_mces,
          created_term_urns, dataset_docs, raised, outfile, writes,
          stdout, exit_code, u_prefix, u_name, u_urn, u_again>>

mainVars == <<script, excel, pc, i, df, all_term_names, all_mces,
              created_term_urns, dataset_docs, raised, outfile, writes,
              stdout, exit_code>>

urnVars == <<u_prefix, u_name, u_urn, u_again>>

(* ---------------------------- bounds ----------------------------------- *)
MaxRows == 3
MaxLen == 3

(* ------------------------ cell values, text ---------------------------- *)
NaN == <<"NaN">>
None == <<"None">>
Num7 == <<"int:7">>

notna(v) == v \notin {NaN, None}

isstr(v) == v \notin {NaN, None, Num7}

str(v) ==
  IF v = NaN THEN <<"n", "a", "n">>
  ELSE IF v = None THEN <<"N", "o", "n", "e">>
  ELSE IF v = Num7 THEN <<"7">>
  ELSE v

RowGet(row, col) == IF col \in DOMAIN row THEN row[col] ELSE None

RowGetDefault(row, col, dflt) == IF col \in DOMAIN row THEN row[col] ELSE dflt

RECURSIVE Join(_, _)
Join(parts, sep) ==
  IF parts = <<>> THEN <<>>
  ELSE IF Len(parts) = 1 THEN parts[1]
  ELSE parts[1] \o sep \o Join(Tail(parts), sep)

(* -------------------------- configuration ------------------------------ *)
GLOSSARY_NAME ==
  <<"M", "y", "P", "l", "a", "t", "f", "o", "r", "m",
    "G", "l", "o", "s", "s", "a", "r", "y">>
JIRA_URL_PREFIX == <<"https://your-jira-instance.atlassian.net/browse/">>
DATASTORE1_PLATFORM == "snowflake"
DATASTORE2_PLATFORM == "postgres"
ENVIRONMENT == "PROD"
DATAHUB_ACTOR == "urn:li:corpuser:datahub"
NowMs == "int(time.time() * 1000)"

DATASTORE1_URN_PATTERN(table_name) == <<"prod_db.public.">> \o str(table_name)

DATASTORE2_URN_PATTERN(table_name) == <<"analytics_db.reporting.">> \o str(table_name)

(* ------------------------- identifier generation ----------------------- *)
Lower == {"a", "b", "c", "d", "e", "f", "g", "h", "i", "j", "k", "l", "m",
          "n", "o", "p", "q", "r", "s", "t", "u", "v", "w", "x", "y", "z"}

Upper == {"A", "B", "C", "D", "E", "F", "G", "H", "I", "J", "K", "L", "M",
          "N", "O", "P", "Q", "R", "S", "T", "U", "V", "W", "X", "Y", "Z"}

Digits == {"0", "1", "2", "3", "4", "5", "6", "7", "8", "9"}

AllowedChars == Lower \cup Upper \cup Digits \cup {"_", "-"}

ReplaceSpaces(s) == SelectSeq(s, LAMBDA ch : ch # " ")

ReSubOnce(s) ==
  IF \A k \in 1..Len(s) : s[k] \in AllowedChars THEN s
  ELSE LET k == CHOOSE m \in 1..Len(s) :
                  /\ s[m] \notin AllowedChars
                  /\ \A n \in 1..(m-1) : s[n] \in AllowedChars
       IN SubSeq(s, 1, k-1) \o SubSeq(s, k+1, Len(s))

ReSub(s) == SelectSeq(s, LAMBDA ch : ch \in AllowedChars)

Sanitize(s) == ReSub(ReplaceSpaces(s))

generate_urn_g1(term_name) == Sanitize(term_name)

generate_urn(prefix, name) == <<"urn:li:", prefix, ":">> \o Sanitize(str(name))

(* ------------------- create_glossary.py: records ----------------------- *)
term_urn_g1(term_name) == <<"urn:li:glossaryTerm:">> \o generate_urn_g1(term_name)

create_glossary_term_mce_g1_raises(row, all_terms) ==
  \/ ~isstr(row["TermName"])
  \/ "Definition" \notin DOMAIN row
  \/ /\ notna(RowGet(row, "ParentTerm"))
     /\ row["ParentTerm"] \in all_terms
     /\ ~isstr(row["ParentTerm"])

glossary_term_info_g1_nocheck(row, all_terms) ==
  LET base == [definition |-> str(row["Definition"]),
               termSource |-> str(RowGetDefault(row, "TermSource", <<>>))]
  IN IF notna(RowGet(row, "ParentTerm"))
     THEN base @@ ("parentNode" :> term_urn_g1(str(row["ParentTerm"])))
     ELSE base

glossary_term_info_g1(row, all_terms) ==
  LET base == [definition |-> str(row["Definition"]),
               termSource |-> str(RowGetDefault(row, "TermSource", <<>>))]
  IN IF notna(RowGet(row, "ParentTerm")) /\ row["ParentTerm"] \in all_terms
     THEN base @@ ("parentNode" :> term_urn_g1(row["ParentTerm"]))
     ELSE base

create_glossary_term_mce_g1(row, all_terms) ==
  [auditHeader |-> None,
   snapshot |-> "GlossaryTermSnapshot",
   urn |-> term_urn_g1(row["TermName"]),
   aspects |-> << [aspect |-> "GlossaryTermInfo",
                   value |-> glossary_term_info_g1(row, all_terms)],
                  [aspect |-> "Ownership",
                   value |-> [owners |-> << [owner |-> DATAHUB_ACTOR,
                                             type |-> "DATAOWNER"] >>,
                              lastModified |-> [time |-> NowMs,
                                                actor |-> DATAHUB_ACTOR]]] >>,
   proposedDelta |-> None]

(* ------------------- create_glossary2.py: records ---------------------- *)
create_main_glossary_node_mce ==
  [auditHeader |-> None,
   snapshot |-> "GlossaryNodeSnapshot",
   urn |-> generate_urn("glossaryNode", GLOSSARY_NAME),
   aspects |-> << [aspect |-> "GlossaryNodeInfo",
                   value |-> [name |-> GLOSSARY_NAME]] >>]

definition_parts(row) ==
  (IF notna(RowGet(row, "Definition")) THEN << str(row["Definition"]) >> ELSE <<>>)
  \o (IF notna(RowGet(row, "Syonym"))
      THEN << <<"\n\n**Synonyms:** ">> \o str(row["Syonym"]) >> ELSE <<>>)
  \o (IF notna(RowGet(row, "List of Values"))
      THEN << <<"\n\n**Accepted Values:**\n">> \o str(row["List of Values"]) >>
      ELSE <<>>)

links(row) ==
  (IF notna(RowGet(row, "Reference Link"))
   THEN << [url |-> str(row["Reference Link"]), description |-> "Reference Link"] >>
   ELSE <<>>)
  \o (IF notna(RowGet(row, "Jira Reference#"))
      THEN << [url |-> JIRA_URL_PREFIX \o str(row["Jira Reference#"]),
               description |-> "Jira Ticket"] >>
      ELSE <<>>)

tags(row) ==
  IF notna(RowGet(row, "Originating System"))
  THEN << [tag |-> generate_urn("tag", <<"S", "o", "u", "r", "c", "e", ":">>
                                        \o str(row["Originating System"]))] >>
  ELSE <<>>

create_glossary_term_mce_raises(row) == "Full Name" \notin DOMAIN row

create_glossary_term_mce(row) ==
  [auditHeader |-> None,
   snapshot |-> "GlossaryTermSnapshot",
   urn |-> generate_urn("glossaryTerm", row["Attribute/Column Name"]),
   aspects |->
     << [aspect |-> "GlossaryTermInfo",
         value |-> [name |-> str(row["Full Name"]),
                    definition |-> Join(definition_parts(row), <<"\n">>),
                    parentNode |-> generate_urn("glossaryNode", GLOSSARY_NAME)]] >>
     \o (IF links(row) # <<>>
         THEN << [aspect |-> "InstitutionalMemory",
                  value |-> [elements |-> links(row)]] >> ELSE <<>>)
     \o (IF tags(row) # <<>>
         THEN << [aspect |-> "GlobalTags", value |-> [tags |-> tags(row)]] >>
         ELSE <<>>)]

create_editable_schema_metadata_mce(dataset_urn, field_docs) ==
  [auditHeader |-> None,
   snapshot |-> "DatasetSnapshot",
   urn |-> dataset_urn,
   aspects |-> << [aspect |-> "EditableSchemaMetadata",
                   value |-> [editableSchemaFieldInfo |-> field_docs,
                              created |-> [time |-> NowMs,
                                           actor |-> DATAHUB_ACTOR]]] >>]

ds1_urn(table_name) ==
  <<"urn:li:dataset:(urn:li:dataPlatform:", DATASTORE1_PLATFORM, ",">>
  \o DATASTORE1_URN_PATTERN(table_name) \o <<",", ENVIRONMENT, ")">>

ds2_urn(table_name) ==
  <<"urn:li:dataset:(urn:li:dataPlatform:", DATASTORE2_PLATFORM, ",">>
  \o DATASTORE2_URN_PATTERN(table_name) \o <<",", ENVIRONMENT, ")">>

field_doc(col_name, term_urn) ==
  [fieldPath |-> str(col_name),
   glossaryTerms |-> [terms |-> << [urn |-> term_urn] >>]]

\* dataset_docs is a dict in insertion order: a sequence of
\* [urn, field_docs] with pairwise distinct urn.
docs_append(docs, urn, entry) ==
  IF \E k \in 1..Len(docs) : docs[k].urn = urn
  THEN [k \in 1..Len(docs) |->
          IF docs[k].urn = urn
          THEN [docs[k] EXCEPT !.field_docs = Append(@, entry)]
          ELSE docs[k]]
  ELSE Append(docs, [urn |-> urn, field_docs |-> << entry >>])

(* ------------------------------ inputs --------------------------------- *)
Rev == <<"R", "e", "v">>
NetRev == <<"N", " ", "R">>
Cost == <<"C", "o">>

Row1(term, defn, parent) ==
  ("TermName" :> term) @@ ("Definition" :> defn) @@ ("ParentTerm" :> parent)

\* lines of the 'GlossaryTerms' sheet
Pool1 ==
  { Row1(t, d, p) : t \in {Rev, NetRev}, d \in {NaN, <<"d">>}, p \in {NaN, Rev, Cost} }
  \cup { Row1(NaN, <<"d">>, Rev), Row1(Num7, <<"d">>, NaN), Row1(Rev, NaN, Num7) }

AB == <<"a", "b">>
ASpB == <<"a", " ", "b">>
CBang == <<"c", "!">>
T1 == <<"t", "1">>
T2 == <<"t", "2">>

Row2(name, full, defn, table, c1, c2) ==
  ("Attribute/Column Name" :> name) @@ ("Full Name" :> full)
  @@ ("Definition" :> defn) @@ ("physical dictionary table_name" :> table)
  @@ ("DataStore1 Attribute/Column physical_name" :> c1)
  @@ ("DataStore2 Column Name" :> c2)

Dest2 == { <<NaN, NaN, NaN>>, <<T1, <<"x">>, NaN>>, <<T1, NaN, <<"y">> >>,
           <<T1, <<"x">>, <<"y">> >>, <<T2, <<"x">>, NaN>> }

\* lines of the data dictionary
Pool2 ==
  { Row2(AB, <<"F", "1">>, <<"d">>, d[1], d[2], d[3]) : d \in Dest2 }
  \cup { Row2(ASpB, <<"F", "2">>, NaN, d[1], d[2], d[3]) : d \in Dest2 }
  \cup { Row2(CBang, NaN, <<"d">>, d[1], d[2], d[3]) : d \in Dest2 }
  \cup { Row2(NaN, <<"F", "1">>, <<"d">>, NaN, NaN, NaN),
         Row2(NaN, <<"F", "2">>, <<"d">>, T1, <<"x">>, <<"y">>) }

DropColumn(row, col) == [c \in (DOMAIN row) \ {col} |-> row[c]]

Frames(pool) == UNION { [1..n -> pool] : n \in 0..MaxRows }

Sheets1 == Frames(Pool1)

Sheets2 ==
  Frames(Pool2)
  \cup { [k \in DOMAIN f |-> DropColumn(f[k], "Full Name")] : f \in Frames(Pool2) }

ExcelFiles(sheets) ==
  { [exists |-> FALSE, readable |-> FALSE, sheet |-> <<>>],
    [exists |-> TRUE, readable |-> FALSE, sheet |-> <<>>] }
  \cup { [exists |-> TRUE, readable |-> TRUE, sheet |-> f] : f \in sheets }

(* ------------------- create_glossary2.py: one row ---------------------- *)
term_step_dup(row, mces, created) ==
  [all_mces |-> Append(mces, create_glossary_term_mce(row)),
   created_term_urns |->
     created \cup {generate_urn("glossaryTerm", row["Attribute/Column Name"])}]

term_step_inverted(row, mces, created) ==
  LET term_urn == generate_urn("glossaryTerm", row["Attribute/Column Name"])
  IN IF term_urn \in created
     THEN [all_mces |-> Append(mces, create_glossary_term_mce(row)),
           created_term_urns |-> created \cup {term_urn}]
     ELSE [all_mces |-> mces, created_term_urns |-> created \cup {term_urn}]

term_step(row, mces, created) ==
  LET term_urn == generate_urn("glossaryTerm", row["Attribute/Column Name"])
  IN IF term_urn \notin created
     THEN [all_mces |-> Append(mces, create_glossary_term_mce(row)),
           created_term_urns |-> created \cup {term_urn}]
     ELSE [all_mces |-> mces, created_term_urns |-> created]

term_step_raises(row, created) ==
  /\ generate_urn("glossaryTerm", row["Attribute/Column Name"]) \notin created
  /\ create_glossary_term_mce_raises(row)

docs_step_per_field(row, docs) ==
  LET term_urn == generate_urn("glossaryTerm", row["Attribute/Column Name"])
      table_name == RowGet(row, "physical dictionary table_name")
      ds1_col_name == RowGet(row, "DataStore1 Attribute/Column physical_name")
      ds2_col_name == RowGet(row, "DataStore2 Column Name")
      after1 == IF notna(ds1_col_name)
                THEN Append(docs, [urn |-> ds1_urn(table_name),
                                   field_docs |-> << field_doc(ds1_col_name, term_urn) >>])
                ELSE docs
      after2 == IF notna(ds2_col_name)
                THEN Append(after1, [urn |-> ds2_urn(table_name),
                                     field_docs |-> << field_doc(ds2_col_name, term_urn) >>])
                ELSE after1
  IN IF ~notna(table_name) THEN docs ELSE after2

docs_step(row, docs) ==
  LET term_urn == generate_urn("glossaryTerm", row["Attribute/Column Name"])
      table_name == RowGet(row, "physical dictionary table_name")
      ds1_col_name == RowGet(row, "DataStore1 Attribute/Column physical_name")
      ds2_col_name == RowGet(row, "DataStore2 Column Name")
      after1 == IF notna(ds1_col_name)
                THEN docs_append(docs, ds1_urn(table_name),
                                 field_doc(ds1_col_name, term_urn))
                ELSE docs
      after2 == IF notna(ds2_col_name)
                THEN docs_append(after1, ds2_urn(table_name),
                                 field_doc(ds2_col_name, term_urn))
                ELSE after1
  IN IF ~notna(table_name) THEN docs ELSE after2

dataset_mces(docs) ==
  [k \in 1..Len(docs) |->
     create_editable_schema_metadata_mce(docs[k].urn, docs[k].field_docs)]

(* ------------------------------ state ---------------------------------- *)
NoOutput == [exists |-> FALSE, content |-> <<>>]

InitCommon ==
  /\ i = 0
  /\ df = <<>>
  /\ all_term_names = {}
  /\ all_mces = <<>>
  /\ created_term_urns = {}
  /\ dataset_docs = <<>>
  /\ raised = "none"
  /\ outfile = NoOutput
  /\ writes = 0
  /\ stdout = <<>>
  /\ exit_code = -1

InitUrnIdle ==
  /\ u_prefix = "glossaryTerm"
  /\ u_name = <<>>
  /\ u_urn = <<>>
  /\ u_again = <<>>

Init ==
  /\ script \in {"create_glossary", "create_glossary2"}
  /\ excel \in IF script = "create_glossary" THEN ExcelFiles(Sheets1)
                                              ELSE ExcelFiles(Sheets2)
  /\ pc = "start"
  /\ InitCommon
  /\ InitUrnIdle

(* ------------------- create_glossary.py: main -------------------------- *)
main_g1_read_excel ==
  /\ script = "create_glossary"
  /\ pc = "start"
  /\ all_mces' = <<>>
  /\ IF ~excel.exists
     THEN /\ raised' = "FileNotFoundError"
          /\ pc' = "except"
          /\ UNCHANGED <<df, all_term_names, i>>
     ELSE IF ~excel.readable
     THEN /\ raised' = "Exception"
          /\ pc' = "except"
          /\ UNCHANGED <<df, all_term_names, i>>
     ELSE /\ df' = excel.sheet
          /\ all_term_names' = { excel.sheet[k]["TermName"] : k \in DOMAIN excel.sheet }
          /\ i' = 1
          /\ pc' = "loop"
          /\ UNCHANGED raised
  /\ UNCHANGED <<script, excel, created_term_urns, dataset_docs, outfile, writes,
                 stdout, exit_code>>
  /\ UNCHANGED urnVars

main_g1_row_break ==
  /\ script = "create_glossary"
  /\ pc = "loop"
  /\ i <= Len(df)
  /\ LET row == df[i]
     IN IF notna(RowGet(row, "TermName"))
        THEN IF create_glossary_term_mce_g1_raises(row, all_term_names)
             THEN /\ raised' = "Exception"
                  /\ pc' = "except"
                  /\ UNCHANGED <<all_mces, i, stdout>>
             ELSE /\ all_mces' = Append(all_mces,
                                        create_glossary_term_mce_g1(row, all_term_names))
                  /\ i' = i + 1
                  /\ UNCHANGED <<raised, pc, stdout>>
        ELSE /\ stdout' = Append(stdout, "Skipping row due to missing 'TermName'")
             /\ i' = Len(df) + 1
             /\ UNCHANGED <<raised, pc, all_mces>>
  /\ UNCHANGED <<script, excel, df, all_term_names, created_term_urns, dataset_docs,
                 outfile, writes, exit_code>>
  /\ UNCHANGED urnVars

main_g1_row ==
  /\ script = "create_glossary"
  /\ pc = "loop"
  /\ i <= Len(df)
  /\ LET row == df[i]
     IN IF notna(RowGet(row, "TermName"))
        THEN IF create_glossary_term_mce_g1_raises(row, all_term_names)
             THEN /\ raised' = "Exception"
                  /\ pc' = "except"
                  /\ UNCHANGED <<all_mces, i, stdout>>
             ELSE /\ all_mces' = Append(all_mces,
                                        create_glossary_term_mce_g1(row, all_term_names))
                  /\ i' = i + 1
                  /\ UNCHANGED <<raised, pc, stdout>>
        ELSE /\ stdout' = Append(stdout, "Skipping row due to missing 'TermName'")
             /\ i' = i + 1
             /\ UNCHANGED <<raised, pc, all_mces>>
  /\ UNCHANGED <<script, excel, df, all_term_names, created_term_urns, dataset_docs,
                 outfile, writes, exit_code>>
  /\ UNCHANGED urnVars

main_g1_write ==
  /\ script = "create_glossary"
  /\ pc = "loop"
  /\ i = Len(df) + 1
  /\ outfile' = [exists |-> TRUE, content |-> all_mces]
  /\ writes' = writes + 1
  /\ stdout' = Append(stdout, "Successfully generated glossary term MCEs")
  /\ pc' = "returned"
  /\ UNCHANGED <<script, excel, i, df, all_term_names, all_mces, created_term_urns,
                 dataset_docs, raised, exit_code>>
  /\ UNCHANGED urnVars

main_g1_except_FileNotFoundError ==
  /\ script = "create_glossary"
  /\ pc = "except"
  /\ raised = "FileNotFoundError"
  /\ stdout' = Append(stdout, "Error: The file was not found.")
  /\ pc' = "returned"
  /\ UNCHANGED <<script, excel, i, df, all_term_names, all_mces, created_term_urns,
                 dataset_docs, raised, outfile, writes, exit_code>>
  /\ UNCHANGED urnVars

main_g1_except_Exception_dump ==
  /\ script = "create_glossary"
  /\ pc = "except"
  /\ raised = "Exception"
  /\ stdout' = Append(stdout, "An error occurred")
  /\ outfile' = [exists |-> TRUE, content |-> all_mces]
  /\ writes' = writes + 1
  /\ pc' = "returned"
  /\ UNCHANGED <<script, excel, i, df, all_term_names, all_mces, created_term_urns,
                 dataset_docs, raised, exit_code>>
  /\ UNCHANGED urnVars

main_g1_except_Exception ==
  /\ script = "create_glossary"
  /\ pc = "except"
  /\ raised = "Exception"
  /\ stdout' = Append(stdout, "An error occurred")
  /\ pc' = "returned"
  /\ UNCHANGED <<script, excel, i, df, all_term_names, all_mces, created_term_urns,
                 dataset_docs, raised, outfile, writes, exit_code>>
  /\ UNCHANGED urnVars

(* ------------------- create_glossary2.py: main ------------------------- *)
initial_mces_empty == <<>>

initial_mces == << create_main_glossary_node_mce >>

main_read_excel ==
  /\ script = "create_glossary2"
  /\ pc = "start"
  /\ all_mces' = initial_mces
  /\ created_term_urns' = {}
  /\ dataset_docs' = <<>>
  /\ IF ~excel.exists
     THEN /\ raised' = "FileNotFoundError"
          /\ pc' = "except"
          /\ UNCHANGED <<df, i>>
     ELSE IF ~excel.readable
     THEN /\ raised' = "Exception"
          /\ pc' = "except"
          /\ UNCHANGED <<df, i>>
     ELSE /\ df' = excel.sheet
          /\ i' = 1
          /\ pc' = "loop"
          /\ UNCHANGED raised
  /\ UNCHANGED <<script, excel, all_term_names, outfile, writes, stdout, exit_code>>
  /\ UNCHANGED urnVars

main_row ==
  /\ script = "create_glossary2"
  /\ pc = "loop"
  /\ i <= Len(df)
  /\ LET row == df[i]
     IN IF ~notna(RowGet(row, "Attribute/Column Name"))
        THEN /\ i' = i + 1
             /\ UNCHANGED <<all_mces, created_term_urns, dataset_docs, raised, pc>>
        ELSE IF term_step_raises(row, created_term_urns)
        THEN /\ raised' = "Exception"
             /\ pc' = "except"
             /\ UNCHANGED <<all_mces, created_term_urns, dataset_docs, i>>
        ELSE /\ all_mces' = term_step(row, all_mces, created_term_urns).all_mces
             /\ created_term_urns' =
                  term_step(row, all_mces, created_term_urns).created_term_urns
             /\ dataset_docs' = docs_step(row, dataset_docs)
             /\ i' = i + 1
             /\ UNCHANGED <<raised, pc>>
  /\ UNCHANGED <<script, excel, df, all_term_names, outfile, writes, stdout, exit_code>>
  /\ UNCHANGED urnVars

main_write ==
  /\ script = "create_glossary2"
  /\ pc = "loop"
  /\ i = Len(df) + 1
  /\ all_mces' = all_mces \o dataset_mces(dataset_docs)
  /\ outfile' = [exists |-> TRUE, content |-> all_mces']
  /\ writes' = writes + 1
  /\ stdout' = Append(stdout, "Successfully generated MCEs")
  /\ pc' = "returned"
  /\ UNCHANGED <<script, excel, i, df, all_term_names, created_term_urns,
                 dataset_docs, raised, exit_code>>
  /\ UNCHANGED urnVars

main_except_FileNotFoundError ==
  /\ script = "create_glossary2"
  /\ pc = "except"
  /\ raised = "FileNotFoundError"
  /\ stdout' = Append(stdout, "Error: The file was not found.")
  /\ pc' = "returned"
  /\ UNCHANGED <<script, excel, i, df, all_term_names, all_mces, created_term_urns,
                 dataset_docs, raised, outfile, writes, exit_code>>
  /\ UNCHANGED urnVars

main_except_Exception ==
  /\ script = "create_glossary2"
  /\ pc = "except"
  /\ raised = "Exception"
  /\ stdout' = Append(stdout, "An error occurred")
  /\ pc' = "returned"
  /\ UNCHANGED <<script, excel, i, df, all_term_names, all_mces, created_term_urns,
                 dataset_docs, raised, outfile, writes, exit_code>>
  /\ UNCHANGED urnVars

\* main() returned to the module's last line: the interpreter exits normally
process_exit ==
  /\ pc = "returned"
  /\ exit_code' = 0
  /\ pc' = "exited"
  /\ UNCHANGED <<script, excel, i, df, all_term_names, all_mces, created_term_urns,
                 dataset_docs, raised, outfile, writes, stdout>>
  /\ UNCHANGED urnVars

Next ==
  \/ main_g1_read_excel
  \/ main_g1_row
  \/ main_g1_write
  \/ main_g1_except_FileNotFoundError
  \/ main_g1_except_Exception
  \/ main_read_excel
  \/ main_row
  \/ main_write
  \/ main_except_FileNotFoundError
  \/ main_except_Exception
  \/ process_exit

Spec == Init /\ [][Next]_vars

(* --------------------- generate_urn on its own ------------------------- *)
UrnChars == {"a", "Z", "5", "_", "-", " ", "!", ":"}

UrnNames == UNION { [1..n -> UrnChars] : n \in 0..MaxLen }

InitUrn ==
  /\ script = "generate_urn"
  /\ excel = [exists |-> FALSE, readable |-> FALSE, sheet |-> <<>>]
  /\ pc = "urn_start"
  /\ InitCommon
  /\ u_prefix \in {"glossaryTerm", "glossaryNode"}
  /\ u_name \in UrnNames \cup {NaN, Num7}
  /\ u_urn = <<>>
  /\ u_again = <<>>

call_generate_urn ==
  /\ pc = "urn_start"
  /\ u_urn' = generate_urn(u_prefix, u_name)
  /\ pc' = "urn_made"
  /\ UNCHANGED <<u_prefix, u_name, u_again>>
  /\ UNCHANGED <<script, excel, i, df, all_term_names, all_mces, created_term_urns,
                 dataset_docs, raised, outfile, writes, stdout, exit_code>>

\* the sanitized name is what follows "urn:li:", prefix, ":" in the URN
recall_generate_urn ==
  /\ pc = "urn_made"
  /\ u_again' = generate_urn(u_prefix, SubSeq(u_urn, 4, Len(u_urn)))
  /\ pc' = "urn_done"
  /\ UNCHANGED <<u_prefix, u_name, u_urn>>
  /\ UNCHANGED <<script, excel, i, df, all_term_names, all_mces, created_term_urns,
                 dataset_docs, raised, outfile, writes, stdout, exit_code>>

call_generate_urn_g1 ==
  /\ pc = "urn_start"
  /\ isstr(u_name)
  /\ u_urn' = generate_urn_g1(u_name)
  /\ pc' = "urn_made_g1"
  /\ UNCHANGED <<u_prefix, u_name, u_again>>
  /\ UNCHANGED <<script, excel, i, df, all_term_names, all_mces, created_term_urns,
                 dataset_docs, raised, outfile, writes, stdout, exit_code>>

recall_generate_urn_g1 ==
  /\ pc = "urn_made_g1"
  /\ u_again' = generate_urn_g1(u_urn)
  /\ pc' = "urn_done_g1"
  /\ UNCHANGED <<u_prefix, u_name, u_urn>>
  /\ UNCHANGED <<script, excel, i, df, all_term_names, all_mces, created_term_urns,
                 dataset_docs, raised, outfile, writes, stdout, exit_code>>

NextUrn ==
  \/ call_generate_urn
  \/ recall_generate_urn
  \/ call_generate_urn_g1
  \/ recall_generate_urn_g1

SpecUrn == InitUrn /\ [][NextUrn]_vars

(* ============================ properties =============================== *)
G1 == script = "create_glossary"

G2 == script = "create_glossary2"

\* rows the loop has finished with
Processed == 1..(i - 1)

IsTerm(r) == r.snapshot = "GlossaryTermSnapshot"

IsNode(r) == r.snapshot = "GlossaryNodeSnapshot"

IsDataset(r) == r.snapshot = "DatasetSnapshot"

IndicesOf(mces, urn) == { j \in DOMAIN mces : mces[j].urn = urn }

TermRows2(rows) ==
  { k \in rows : notna(RowGet(df[k], "Attribute/Column Name")) }

TermUrn2(k) == generate_urn("glossaryTerm", df[k]["Attribute/Column Name"])

FirstRowOf(k, rows) ==
  CHOOSE m \in TermRows2(rows) :
    /\ TermUrn2(m) = TermUrn2(k)
    /\ \A n \in TermRows2(rows) : TermUrn2(n) = TermUrn2(k) => m <= n

OneTermPerUrn(mces, rows) ==
  /\ \A k \in TermRows2(rows) :
       /\ Cardinality({ j \in IndicesOf(mces, TermUrn2(k)) : IsTerm(mces[j]) }) = 1
       /\ \A j \in IndicesOf(mces, TermUrn2(k)) :
            IsTerm(mces[j]) => mces[j] = create_glossary_term_mce(df[FirstRowOf(k, rows)])
  /\ \A j \in DOMAIN mces :
       IsTerm(mces[j]) => \E k \in TermRows2(rows) : mces[j].urn = TermUrn2(k)

\* C1: create_glossary2.main keeps exactly one term record per distinct
\* sanitized term URN among the rows with a non-null 'Attribute/Column Name'
\* processed so far, built from the first such row; the same holds of the
\* written output for all rows.
C1_OneTermPerUrn ==
  G2 => /\ OneTermPerUrn(all_mces, Processed)
        /\ outfile.exists => OneTermPerUrn(outfile.content, DOMAIN df)

C1_Witness ==
  /\ G2 /\ pc = "exited" /\ outfile.exists
  /\ \E k, m \in DOMAIN df :
       /\ k < m
       /\ notna(df[k]["Attribute/Column Name"])
       /\ notna(df[m]["Attribute/Column Name"])
       /\ df[k]["Attribute/Column Name"] # df[m]["Attribute/Column Name"]
       /\ TermUrn2(k) = TermUrn2(m)
       /\ \E n \in DOMAIN df : notna(df[n]["Attribute/Column Name"])
                               /\ TermUrn2(n) # TermUrn2(k)
       /\ \E j \in DOMAIN outfile.content :
            outfile.content[j] = create_glossary_term_mce(df[k])

\* C2 (as claimed): in create_glossary.main the rows carrying one non-null
\* 'TermName' yield exactly one term record in the written output.
C2_OneRecordPerTermName ==
  (G1 /\ outfile.exists) =>
    \A k \in DOMAIN df :
      notna(df[k]["TermName"]) =>
        Cardinality(IndicesOf(outfile.content, term_urn_g1(df[k]["TermName"]))) = 1

\* entries a row adds to the field list of dataset `urn`, in code order
RowFields(row, urn) ==
  IF ~notna(RowGet(row, "Attribute/Column Name"))
     \/ ~notna(RowGet(row, "physical dictionary table_name"))
  THEN <<>>
  ELSE LET t == generate_urn("glossaryTerm", row["Attribute/Column Name"])
           table == row["physical dictionary table_name"]
           c1 == RowGet(row, "DataStore1 Attribute/Column physical_name")
           c2 == RowGet(row, "DataStore2 Column Name")
       IN (IF notna(c1) /\ ds1_urn(table) = urn THEN << field_doc(c1, t) >> ELSE <<>>)
          \o (IF notna(c2) /\ ds2_urn(table) = urn THEN << field_doc(c2, t) >> ELSE <<>>)

RECURSIVE ExpectedFields(_, _)
ExpectedFields(urn, n) ==
  IF n = 0 THEN <<>> ELSE ExpectedFields(urn, n - 1) \o RowFields(df[n], urn)

TablesOfSheet ==
  { RowGet(df[k], "physical dictionary table_name") : k \in DOMAIN df } \ {NaN, None}

CandidateDatasetUrns ==
  { ds1_urn(t) : t \in TablesOfSheet } \cup { ds2_urn(t) : t \in TablesOfSheet }

MappedDatasetUrns(n) == { u \in CandidateDatasetUrns : ExpectedFields(u, n) # <<>> }

FieldsOf(r) == r.aspects[1].value.editableSchemaFieldInfo

\* C3: the output of create_glossary2.main holds exactly one dataset record
\* per distinct computed dataset URN, whose field list has one entry for every
\* row that mapped a physical column to that dataset, in source row order.
C3_OneDatasetRecordPerUrn ==
  (G2 /\ outfile.exists) =>
    LET out == outfile.content
    IN /\ \A u \in MappedDatasetUrns(Len(df)) :
            /\ Cardinality({ j \in IndicesOf(out, u) : IsDataset(out[j]) }) = 1
            /\ \A j \in IndicesOf(out, u) :
                 IsDataset(out[j]) => FieldsOf(out[j]) = ExpectedFields(u, Len(df))
       /\ \A j \in DOMAIN out :
            IsDataset(out[j]) => out[j].urn \in MappedDatasetUrns(Len(df))

C3_Witness ==
  /\ G2 /\ pc = "exited" /\ outfile.exists
  /\ \E j, k \in DOMAIN outfile.content :
       /\ j # k
       /\ IsDataset(outfile.content[j])
       /\ IsDataset(outfile.content[k])
       /\ Len(FieldsOf(outfile.content[j])) >= 2
       /\ FieldsOf(outfile.content[j])[1] # FieldsOf(outfile.content[j])[2]

AllTermNamesOfSheet == { df[k]["TermName"] : k \in DOMAIN df }

HasParentNode(r) == "parentNode" \in DOMAIN r.aspects[1].value

\* C4: a term record appended by create_glossary.main carries 'parentNode'
\* iff the row's 'ParentTerm' is non-null and among the 'TermName' values of
\* the whole sheet; a row with a usable name whose parent is not among them
\* is appended without raising.
C4_ParentNodeIffKnown ==
  [][ (G1 /\ pc = "loop" /\ i <= Len(df) /\ notna(df[i]["TermName"])) =>
        LET row == df[i]
            known == notna(row["ParentTerm"]) /\ row["ParentTerm"] \in AllTermNamesOfSheet
        IN /\ Len(all_mces') = Len(all_mces) + 1 =>
                (HasParentNode(all_mces'[Len(all_mces')]) <=> known)
           /\ (isstr(row["TermName"]) /\ ~known) =>
                /\ raised' = "none"
                /\ Len(all_mces') = Len(all_mces) + 1
                /\ ~HasParentNode(all_mces'[Len(all_mces')]) ]_vars

C4_Witness ==
  /\ G1 /\ pc = "exited" /\ outfile.exists /\ Len(outfile.content) = Len(df)
  /\ \E k, m \in DOMAIN df :
       /\ k < m
       /\ df[k]["ParentTerm"] = df[m]["TermName"]
       /\ \A n \in 1..k : df[n]["TermName"] # df[k]["ParentTerm"]
       /\ HasParentNode(outfile.content[k])
       /\ notna(df[m]["ParentTerm"])
       /\ ~HasParentNode(outfile.content[m])

\* C5: whatever create_glossary2.main writes holds exactly one glossary-node
\* record, and it is the first element.
C5_NodeFirst ==
  (G2 /\ outfile.exists) =>
    /\ Len(outfile.content) >= 1
    /\ IsNode(outfile.content[1])
    /\ Cardinality({ j \in DOMAIN outfile.content : IsNode(outfile.content[j]) }) = 1

C5_Witness ==
  /\ G2 /\ pc = "exited" /\ outfile.exists
  /\ Len(df) >= 1
  /\ TermRows2(DOMAIN df) = {}
  /\ Len(outfile.content) = 1

\* C6 (as claimed): with the input spreadsheet missing, the run creates no
\* output file, prints an error and the process exit indicates failure.
C6_MissingInputFails ==
  (pc = "exited" /\ ~excel.exists) =>
    /\ ~outfile.exists
    /\ \E k \in DOMAIN stdout : stdout[k] = "Error: The file was not found."
    /\ exit_code # 0

\* C7: the output file is written at most once, only after the last row,
\* and a run in which an exception was raised leaves it untouched and ends
\* in the handler.
C7_WriteOnceAtEnd ==
  /\ [](writes <= 1)
  /\ [](raised # "none" => (outfile = NoOutput /\ writes = 0
                            /\ pc \in {"except", "returned", "exited"}))
  /\ [][ outfile' # outfile =>
           (pc = "loop" /\ i = Len(df) + 1 /\ raised = "none" /\ writes = 0) ]_vars

C7_Witness ==
  /\ pc = "exited" /\ raised = "Exception" /\ excel.readable
  /\ Len(all_mces) >= 2
  /\ outfile = NoOutput

NameColumn == IF G1 THEN "TermName" ELSE "Attribute/Column Name"

\* C8: a row whose required name field is null adds nothing to all_mces,
\* created_term_urns or dataset_docs and raises nothing; the loop moves on
\* to the next row, and a run without exception has visited every row and
\* written the output.
C8_NullNameRowSkipped ==
  /\ [][ (pc = "loop" /\ i <= Len(df) /\ ~notna(RowGet(df[i], NameColumn))) =>
           /\ UNCHANGED <<all_mces, created_term_urns, dataset_docs, raised, pc>>
           /\ i' = i + 1 ]_vars
  /\ []((pc \in {"returned", "exited"} /\ raised = "none") =>
           (outfile.exists /\ i = Len(df) + 1))
  /\ []((raised = "Exception" /\ excel.readable) =>
           (i \in DOMAIN df /\ notna(RowGet(df[i], NameColumn))))

C8_Witness ==
  /\ pc = "exited" /\ outfile.exists
  /\ \E k, m \in DOMAIN df :
       /\ k < m
       /\ ~notna(RowGet(df[k], NameColumn))
       /\ notna(RowGet(df[k], "physical dictionary table_name"))
       /\ notna(RowGet(df[m], NameColumn))
       /\ \E j \in DOMAIN outfile.content :
            IsTerm(outfile.content[j])
            /\ outfile.content[j] = create_glossary_term_mce(df[m])

\* C9: sanitizing a sanitized name changes nothing: generate_urn applied to
\* the sanitized name it produced returns the same URN (both scripts).
C9_SanitizeIdempotent ==
  /\ pc = "urn_done" => u_again = u_urn
  /\ pc = "urn_done_g1" => u_again = u_urn

C9_Witness ==
  /\ pc = "urn_done"
  /\ \E k \in DOMAIN u_name : u_name[k] = " "
  /\ \E k \in DOMAIN u_name : u_name[k] = "!"
  /\ Len(u_urn) = 4

ReferencedTerms(fields) ==
  { fields[k].glossaryTerms.terms[1].urn : k \in DOMAIN fields }

\* C10: in create_glossary2.main every term URN referenced from dataset_docs
\* is in created_term_urns and has a term record in all_mces; in the written
\* output each referenced term URN has exactly one term record, and it comes
\* before every dataset record.
C10_ReferencedTermsExist ==
  G2 =>
    /\ \A d \in DOMAIN dataset_docs :
         \A u \in ReferencedTerms(dataset_docs[d].field_docs) :
           /\ u \in created_term_urns
           /\ \E j \in IndicesOf(all_mces, u) : IsTerm(all_mces[j])
    /\ outfile.exists =>
         LET out == outfile.content
         IN \A d \in DOMAIN out :
              IsDataset(out[d]) =>
                \A u \in ReferencedTerms(FieldsOf(out[d])) :
                  /\ Cardinality({ j \in IndicesOf(out, u) : IsTerm(out[j]) }) = 1
                  /\ \A j \in IndicesOf(out, u) :
                       IsTerm(out[j]) =>
                         \A e \in DOMAIN out : IsDataset(out[e]) => j < e

C10_Witness ==
  /\ G2 /\ pc = "exited" /\ outfile.exists
  /\ \E d, e \in DOMAIN outfile.content :
       /\ d # e
       /\ IsDataset(outfile.content[d])
       /\ IsDataset(outfile.content[e])
       /\ Cardinality(ReferencedTerms(FieldsOf(outfile.content[d]))) >= 2

====
